---- MODULE Spec2Model ----
(***************************************************************************)
(* A model of ruxnasm's second half of the assembly pipeline: the walker   *)
(* (address assignment) feeding the emitter (src/src/emitter.rs).          *)
(*                                                                         *)
(* Two specifications share the emitter's actions:                         *)
(*   Spec      the pipeline: a token stream is walked token by token, the  *)
(*             walker's statements and Definitions are handed to emit when *)
(*             the walker recorded no error, and emit runs its loop;       *)
(*   SpecEmit  emit alone, over its parameter domain: a statement list and *)
(*             a Definitions table drawn from bounded sets.                *)
(* The walker, the token types and the pipeline's stage boundary are those *)
(* of the specification (sections 3, 4.3, 7); everything of the emitter is *)
(* from emitter.rs, by line.                                               *)
(***************************************************************************)
EXTENDS Integers, Sequences, FiniteSets, TLC

(***************************************************************************)
(* Bounds of the model.                                                    *)
(***************************************************************************)
\* longest token stream handed to the walker
MaxTokens == 3
\* longest statement list handed to emit in SpecEmit
MaxEmitLen == 2

(***************************************************************************)
(* Program constants.                                                      *)
(***************************************************************************)
\* emitter.rs:10  const LIT: u8 = 0x80
LIT == 128
\* a variant of LIT2 with the value of LIT
LIT2_as_LIT == LIT
\* emitter.rs:11  const LIT2: u8 = 0x20
LIT2 == 32
\* emitter.rs:23  the first address of the image: pointer and length start here
PageOne == 256
\* emitter.rs:14  data: [u8; 256 * 256 - 256]
DataLen == 65280
\* u16::MAX + 1: pointer, length and addresses are u16
U16 == 65536

(***************************************************************************)
(* Identifiers.  A name is the sequence of its ASCII bytes; a              *)
(* ScopedIdentifier is (label, sublabel?) with an empty sublabel for a     *)
(* plain label.                                                            *)
(***************************************************************************)
\* "foo"
foo == <<102, 111, 111>>
\* "Foo"
Foo == <<70, 111, 111>>
\* "a"
suba == <<97>>

ScopedIdentifier(label, sub) == [label |-> label, sub |-> sub]

LabelNames == {foo, Foo}
SublabelNames == {suba}

\* ScopedIdentifier::is_captital, as the specification's is_capital (section
\* 3): true iff the first byte of the label is an ASCII uppercase letter
is_captital(id) == id.label[1] \in 65..90

(***************************************************************************)
(* Statements (token.rs Statement, as matched in emitter.rs:69-208).       *)
(***************************************************************************)
Instruction(kind, short, return, keep) ==
    [type |-> "Instruction", kind |-> kind, short |-> short,
     return |-> return, keep |-> keep]
PadAbsolute(v) == [type |-> "PadAbsolute", value |-> v]
PadRelative(v) == [type |-> "PadRelative", value |-> v]
LiteralZeroPageAddress(id) == [type |-> "LiteralZeroPageAddress", id |-> id]
LiteralRelativeAddress(id) == [type |-> "LiteralRelativeAddress", id |-> id]
LiteralAbsoluteAddress(id) == [type |-> "LiteralAbsoluteAddress", id |-> id]
RawAddress(id) == [type |-> "RawAddress", id |-> id]
LiteralHexByte(v) == [type |-> "LiteralHexByte", value |-> v]
LiteralHexShort(v) == [type |-> "LiteralHexShort", value |-> v]
RawHexByte(v) == [type |-> "RawHexByte", value |-> v]
RawHexShort(v) == [type |-> "RawHexShort", value |-> v]
RawChar(v) == [type |-> "RawChar", value |-> v]
RawWord(w) == [type |-> "RawWord", word |-> w]

AddressTypes == {"LiteralZeroPageAddress", "LiteralRelativeAddress",
                 "LiteralAbsoluteAddress", "RawAddress"}

Spanned(node, span) == [node |-> node, span |-> span]

(***************************************************************************)
(* Binary (emitter.rs:13-56).  data is kept sparse: the indices that were  *)
(* stored to, every other index holding the 0 of Binary::new.  panicked    *)
(* records that the thread panicked: nothing runs after it.  log is a      *)
(* history of the stores, (address, byte) in the order made.               *)
(***************************************************************************)
\* a variant of Binary_new whose pointer starts at 0
Binary_new_pointer_zero ==
    [data |-> <<>>, pointer |-> 0, length |-> PageOne,
     panicked |-> FALSE, log |-> <<>>]

\* a variant of Binary_new whose length starts at 0
Binary_new_length_zero ==
    [data |-> <<>>, pointer |-> PageOne, length |-> 0,
     panicked |-> FALSE, log |-> <<>>]

\* emitter.rs:20-26
Binary_new ==
    [data |-> <<>>, pointer |-> PageOne, length |-> PageOne,
     panicked |-> FALSE, log |-> <<>>]

Panic(b) == [b EXCEPT !.panicked = TRUE]

\* a variant of increment_pointer that assigns by instead of adding it
increment_pointer_assign(b, by, checks) ==
    IF b.panicked THEN b ELSE [b EXCEPT !.pointer = by]

\* self.pointer += by on a u16: an overflow panics when the build checks
\* overflow (debug) and wraps otherwise (release)
increment_pointer(b, by, checks) ==
    IF b.panicked THEN b
    ELSE IF b.pointer + by >= U16
         THEN IF checks THEN Panic(b)
              ELSE [b EXCEPT !.pointer = (b.pointer + by) % U16]
         ELSE [b EXCEPT !.pointer = b.pointer + by]

\* a variant of set_pointer that adds to the pointer
set_pointer_add(b, to) ==
    IF b.panicked THEN b ELSE [b EXCEPT !.pointer = (b.pointer + to) % U16]

\* emitter.rs:39-41
set_pointer(b, to) ==
    IF b.panicked THEN b ELSE [b EXCEPT !.pointer = to]

get_pointer(b) == b.pointer

\* the index of self.data[self.pointer as usize - 256]
DataIndex(pointer) == pointer - PageOne

Store(data, i, byte) ==
    [j \in (DOMAIN data) \cup {i} |-> IF j = i THEN byte ELSE data[j]]

\* a pointer below 256 panics in either build: the subtraction overflows
\* (debug) or wraps to an index far outside data (release)
push_byte(b, byte, checks) ==
    IF b.panicked THEN b
    ELSE IF DataIndex(b.pointer) < 0 \/ DataIndex(b.pointer) >= DataLen
         THEN Panic(b)
         ELSE LET stored == [b EXCEPT
                                !.data = Store(b.data, DataIndex(b.pointer), byte),
                                !.log = Append(b.log, <<b.pointer, byte>>)]
                  moved == increment_pointer(stored, 1, checks)
              IN  IF moved.panicked THEN moved
                  ELSE [moved EXCEPT !.length = moved.pointer]

\* a variant of push_short that pushes the low byte first
push_short_little_endian(b, short, checks) ==
    push_byte(push_byte(b, short % 256, checks), (short \div 256) % 256, checks)

\* emitter.rs:34-37
push_short(b, short, checks) ==
    push_byte(push_byte(b, (short \div 256) % 256, checks), short % 256, checks)

\* a variant of DataAt reading 0xff where nothing was stored
DataAt_ff(data, i) == IF i \in DOMAIN data THEN data[i] ELSE 255

\* data[i], the 0 of Binary::new where nothing was stored
DataAt(data, i) == IF i \in DOMAIN data THEN data[i] ELSE 0

\* a variant of ToVec that forgets the 256 the image starts at
ToVec_no_offset(b) ==
    [panicked |-> FALSE,
     len |-> b.length,
     data |-> [i \in {j \in DOMAIN b.data : j < b.length} |-> b.data[i]]]

\* a variant of ToVec that cuts the image at pointer instead of length
ToVec_to_pointer(b) ==
    IF b.pointer - PageOne < 0 \/ b.pointer - PageOne > DataLen
    THEN [panicked |-> TRUE, len |-> 0, data |-> <<>>]
    ELSE [panicked |-> FALSE,
          len |-> b.pointer - PageOne,
          data |-> [i \in {j \in DOMAIN b.data : j < b.pointer - PageOne}
                      |-> b.data[i]]]

\* impl From<Binary> for Vec<u8>: binary.data[0..binary.length as usize - 256].
\* The vector is its length and its bytes (sparse, as data); a length below
\* 256 panics in either build.
ToVec(b) ==
    IF b.length - PageOne < 0 \/ b.length - PageOne > DataLen
    THEN [panicked |-> TRUE, len |-> 0, data |-> <<>>]
    ELSE [panicked |-> FALSE,
          len |-> b.length - PageOne,
          data |-> [i \in {j \in DOMAIN b.data : j < b.length - PageOne}
                      |-> b.data[i]]]

VecAt(v, i) == DataAt(v.data, i)

(***************************************************************************)
(* emit (emitter.rs:58-227): one statement of the loop.                    *)
(***************************************************************************)
RECURSIVE BitOr(_, _)
\* a | b on unsigned integers
BitOr(a, b) ==
    IF a = 0 THEN b
    ELSE IF b = 0 THEN a
    ELSE (IF a % 2 = 1 \/ b % 2 = 1 THEN 1 ELSE 0)
         + 2 * BitOr(a \div 2, b \div 2)

\* bool as u8
AsU8(flag) == IF flag THEN 1 ELSE 0

\* a variant of Opcode with the shifts of return and keep exchanged
Opcode_return_keep_exchanged(instruction) ==
    BitOr(BitOr(BitOr(instruction.kind, AsU8(instruction.short) * 32),
                AsU8(instruction.return) * 128),
          AsU8(instruction.keep) * 64)

\* emitter.rs:75-78
Opcode(instruction) ==
    BitOr(BitOr(BitOr(instruction.kind, AsU8(instruction.short) * 32),
                AsU8(instruction.return) * 64),
          AsU8(instruction.keep) * 128)

\* offset as u8: the low eight bits of the two's-complement isize
OffsetAsU8(offset) == (offset + U16) % 256

Abs(n) == IF n < 0 THEN -n ELSE n

LabelUndefined(id, span) ==
    [kind |-> "LabelUndefined", name |-> id, span |-> span]
AddressNotZeroPage(address, id, span) ==
    [kind |-> "AddressNotZeroPage", address |-> address, identifier |-> id,
     span |-> span]
AddressTooFar(distance, id, span, other_span) ==
    [kind |-> "AddressTooFar", distance |-> distance, identifier |-> id,
     span |-> span, other_span |-> other_span]
LabelUnused(id, span) == [kind |-> "LabelUnused", name |-> id, span |-> span]

\* emitter.rs:229-245
find_address(id, defs, span) ==
    IF id \in DOMAIN defs
    THEN [ok |-> TRUE, address |-> defs[id].address, span |-> defs[id].span]
    ELSE [ok |-> FALSE, err |-> LabelUndefined(id, span)]

\* The loop's state is (binary, errors, unused_labels).
With(e, b) == [e EXCEPT !.binary = b]
\* a variant of Report that keeps the first error only
Report_first_only(e, err, b) ==
    [e EXCEPT !.errors = IF @ = <<>> THEN <<err>> ELSE @, !.binary = b]
Report(e, err, b) == [e EXCEPT !.errors = Append(@, err), !.binary = b]
Used(e, id) == [e EXCEPT !.unused_labels = @ \ {id}]

\* a variant of EmitLiteralZeroPageAddress that tests address < 0xff
EmitLiteralZeroPageAddress_below_ff(e, id, span, defs, checks) ==
    LET found == find_address(id, defs, span) IN
    IF found.ok
    THEN IF found.address < 255
         THEN With(Used(e, id),
                   push_byte(push_byte(e.binary, LIT, checks),
                             found.address % 256, checks))
         ELSE Report(Used(e, id),
                     AddressNotZeroPage(found.address, id, span),
                     increment_pointer(e.binary, 2, checks))
    ELSE Report(e, found.err, increment_pointer(e.binary, 2, checks))

\* emitter.rs:93-115
EmitLiteralZeroPageAddress(e, id, span, defs, checks) ==
    LET found == find_address(id, defs, span) IN
    IF found.ok
    THEN IF found.address <= 255
         THEN With(Used(e, id),
                   push_byte(push_byte(e.binary, LIT, checks),
                             found.address % 256, checks))
         ELSE Report(Used(e, id),
                     AddressNotZeroPage(found.address, id, span),
                     increment_pointer(e.binary, 2, checks))
    ELSE Report(e, found.err, increment_pointer(e.binary, 2, checks))

\* a variant of EmitLiteralRelativeAddress that accepts the whole i8 range
\* but for -128
EmitLiteralRelativeAddress_127(e, id, span, defs, checks) ==
    LET found == find_address(id, defs, span) IN
    IF found.ok
    THEN LET offset == found.address - get_pointer(e.binary) - 3 IN
         IF offset < -127 \/ offset > 127
         THEN Report(Used(e, id),
                     AddressTooFar(Abs(offset), id, span, found.span),
                     increment_pointer(e.binary, 2, checks))
         ELSE With(Used(e, id),
                   push_byte(push_byte(e.binary, LIT, checks),
                             OffsetAsU8(offset), checks))
    ELSE Report(e, found.err, increment_pointer(e.binary, 2, checks))

\* emitter.rs:116-140
EmitLiteralRelativeAddress(e, id, span, defs, checks) ==
    LET found == find_address(id, defs, span) IN
    IF found.ok
    THEN LET offset == found.address - get_pointer(e.binary) - 3 IN
         IF offset < -126 \/ offset > 126
         THEN Report(Used(e, id),
                     AddressTooFar(Abs(offset), id, span, found.span),
                     increment_pointer(e.binary, 2, checks))
         ELSE With(Used(e, id),
                   push_byte(push_byte(e.binary, LIT, checks),
                             OffsetAsU8(offset), checks))
    ELSE Report(e, found.err, increment_pointer(e.binary, 2, checks))

\* a variant of EmitLiteralAbsoluteAddress that reserves 2 bytes, as the
\* other three references do, when the label is undefined
EmitLiteralAbsoluteAddress_reserve_2(e, id, span, defs, checks) ==
    LET found == find_address(id, defs, span) IN
    IF found.ok
    THEN With(Used(e, id),
              push_short(push_byte(e.binary, LIT2, checks),
                         found.address, checks))
    ELSE Report(e, found.err, increment_pointer(e.binary, 2, checks))

\* emitter.rs:141-154
EmitLiteralAbsoluteAddress(e, id, span, defs, checks) ==
    LET found == find_address(id, defs, span) IN
    IF found.ok
    THEN With(Used(e, id),
              push_short(push_byte(e.binary, LIT2, checks),
                         found.address, checks))
    ELSE Report(e, found.err, increment_pointer(e.binary, 3, checks))

\* emitter.rs:155-167
EmitRawAddress(e, id, span, defs, checks) ==
    LET found == find_address(id, defs, span) IN
    IF found.ok
    THEN With(Used(e, id), push_short(e.binary, found.address, checks))
    ELSE Report(e, found.err, increment_pointer(e.binary, 2, checks))

RECURSIVE PushWord(_, _, _)
\* emitter.rs:204-206  for byte in word { binary.push_byte(byte) }
PushWord(b, word, checks) ==
    IF word = <<>> THEN b
    ELSE PushWord(push_byte(b, Head(word), checks), Tail(word), checks)

\* emitter.rs:70-208: the match on one statement
EmitOne(e, statement, defs, checks) ==
    LET node == statement.node
        span == statement.span
        b == e.binary
    IN  CASE node.type = "Instruction" ->
               With(e, push_byte(b, Opcode(node), checks))
          [] node.type = "PadAbsolute" ->
               With(e, set_pointer(b, node.value))
          [] node.type = "PadRelative" ->
               With(e, increment_pointer(b, node.value, checks))
          [] node.type = "LiteralZeroPageAddress" ->
               EmitLiteralZeroPageAddress(e, node.id, span, defs, checks)
          [] node.type = "LiteralRelativeAddress" ->
               EmitLiteralRelativeAddress(e, node.id, span, defs, checks)
          [] node.type = "LiteralAbsoluteAddress" ->
               EmitLiteralAbsoluteAddress(e, node.id, span, defs, checks)
          [] node.type = "RawAddress" ->
               EmitRawAddress(e, node.id, span, defs, checks)
          [] node.type = "LiteralHexByte" ->
               With(e, push_byte(push_byte(b, LIT, checks), node.value, checks))
          [] node.type = "LiteralHexShort" ->
               With(e, push_short(push_byte(b, LIT2, checks), node.value, checks))
          [] node.type = "RawHexByte" ->
               With(e, push_byte(b, node.value, checks))
          [] node.type = "RawHexShort" ->
               With(e, push_short(b, node.value, checks))
          [] node.type = "RawChar" ->
               With(e, push_byte(b, node.value, checks))
          [] node.type = "RawWord" ->
               With(e, PushWord(b, node.word, checks))

\* a variant of Warnable without the filter
Warnable_all(unused) == unused

\* emitter.rs:211-220: the labels left in unused_labels that are not capital
Warnable(unused) == {id \in unused : ~is_captital(id)}

\* every order a HashSet's iterator may give the elements of S in
Orders(S) ==
    {o \in [1..Cardinality(S) -> S] :
        \A i, j \in 1..Cardinality(S) : i # j => o[i] # o[j]}

\* a variant of WarningsIn that warns of the first label iterated only
WarningsIn_first_only(order, defs) ==
    [i \in DOMAIN order |-> LabelUnused(order[1], defs[order[1]].span)]

\* emitter.rs:215-219
WarningsIn(order, defs) ==
    [i \in DOMAIN order |-> LabelUnused(order[i], defs[order[i]].span)]

\* a variant of Outcome that returns the errors alone
Outcome_errors_only(b, errs, warns) ==
    IF errs = <<>>
    THEN [ok |-> TRUE, bytes |-> ToVec(b), warnings |-> warns]
    ELSE [ok |-> FALSE, errors |-> errs, warnings |-> <<>>]

\* emitter.rs:222-226
Outcome(b, errs, warns) ==
    IF errs = <<>>
    THEN [ok |-> TRUE, bytes |-> ToVec(b), warnings |-> warns]
    ELSE [ok |-> FALSE, errors |-> errs, warnings |-> warns]

(***************************************************************************)
(* The walker, from the specification, section 4.3: a virtual write        *)
(* pointer starting at 0x0100, the size of each statement, label scoping   *)
(* and the three layout failures.                                          *)
(***************************************************************************)
LabelDefine(name) == [type |-> "LabelDefine", name |-> name]
SublabelDefine(name) == [type |-> "SublabelDefine", name |-> name]

\* the bytes a statement advances the walker's pointer by
Size(node) ==
    CASE node.type = "Instruction" -> 1
      [] node.type = "LiteralHexByte" -> 2
      [] node.type = "RawHexByte" -> 1
      [] node.type = "RawChar" -> 1
      [] node.type = "LiteralHexShort" -> 3
      [] node.type = "RawHexShort" -> 2
      [] node.type = "RawWord" -> Len(node.word)
      [] node.type = "LiteralZeroPageAddress" -> 2
      [] node.type = "LiteralRelativeAddress" -> 2
      [] node.type = "LiteralAbsoluteAddress" -> 3
      [] node.type = "RawAddress" -> 2

WalkerError(kind, span) == [kind |-> kind, span |-> span]

\* Definitions with id bound to (address, span)
Define(defs, id, address, span) ==
    [x \in (DOMAIN defs) \cup {id} |->
        IF x = id THEN [address |-> address, span |-> span] ELSE defs[x]]

\* the walker's state after one more token: w is (pointer, scope,
\* definitions, statements, errors)
WalkOne(w, token, span) ==
    CASE token.type = "LabelDefine" ->
           LET id == ScopedIdentifier(token.name, <<>>) IN
           IF id \in DOMAIN w.definitions
           THEN [w EXCEPT !.scope = token.name,
                          !.errors = Append(@, WalkerError("LabelDefinedMoreThanOnce", span))]
           ELSE [w EXCEPT !.scope = token.name,
                          !.definitions = Define(@, id, w.pointer, span)]
      [] token.type = "SublabelDefine" ->
           IF w.scope = <<>>
           THEN [w EXCEPT !.errors = Append(@, WalkerError("SublabelDefinedWithoutScope", span))]
           ELSE LET id == ScopedIdentifier(w.scope, token.name) IN
                IF id \in DOMAIN w.definitions
                THEN [w EXCEPT !.errors = Append(@, WalkerError("LabelDefinedMoreThanOnce", span))]
                ELSE [w EXCEPT !.definitions = Define(@, id, w.pointer, span)]
      [] token.type = "PadAbsolute" ->
           IF token.value < w.pointer
           THEN [w EXCEPT !.errors = Append(@, WalkerError("PaddedBackwards", span)),
                          !.statements = Append(@, Spanned(token, span))]
           ELSE [w EXCEPT !.pointer = token.value,
                          !.statements = Append(@, Spanned(token, span))]
      [] token.type = "PadRelative" ->
           IF w.pointer + token.value > U16 - 1
           THEN [w EXCEPT !.pointer = w.pointer + token.value,
                          !.errors = Append(@, WalkerError("ProgramTooLong", span)),
                          !.statements = Append(@, Spanned(token, span))]
           ELSE [w EXCEPT !.pointer = w.pointer + token.value,
                          !.statements = Append(@, Spanned(token, span))]
      [] OTHER ->
           LET zeroth == IF w.pointer < PageOne
                         THEN <<WalkerError("BytesInZerothPage", span)>> ELSE <<>>
               long == IF w.pointer + Size(token) > U16 - 1
                       THEN <<WalkerError("ProgramTooLong", span)>> ELSE <<>>
           IN  [w EXCEPT !.pointer = w.pointer + Size(token),
                         !.errors = @ \o zeroth \o long,
                         !.statements = Append(@, Spanned(token, span))]

(***************************************************************************)
(* The token streams of Spec.                                              *)
(***************************************************************************)
foo_ == ScopedIdentifier(foo, <<>>)
foo_a == ScopedIdentifier(foo, suba)

\* |017b |017c |0181 |0182 |fffe
PadAbsoluteValues == {379, 380, 385, 386, 65534}
\* $01 $ffff
PadRelativeValues == {1, 65535}

Tokens ==
    {LabelDefine(n) : n \in LabelNames}
    \cup {SublabelDefine(n) : n \in SublabelNames}
    \cup {PadAbsolute(v) : v \in PadAbsoluteValues}
    \cup {PadRelative(v) : v \in PadRelativeValues}
    \cup {Instruction(0, FALSE, FALSE, FALSE)}
    \cup {LiteralZeroPageAddress(foo_), LiteralRelativeAddress(foo_),
          LiteralAbsoluteAddress(foo_), RawAddress(foo_),
          LiteralAbsoluteAddress(foo_a)}
    \cup {LiteralHexByte(255), LiteralHexShort(4660), RawHexByte(7),
          RawHexShort(43981), RawChar(65), RawWord(<<104, 105, 33>>)}

(***************************************************************************)
(* State.                                                                  *)
(***************************************************************************)
VARIABLES
    pc,             \* "walk", "rejected", "emit", "done" or "panicked"
    walker,         \* the walker: pointer, scope, definitions, statements, errors
    ntokens,        \* tokens walked so far; a token's span is its position
    statements,     \* emit's parameter
    definitions,    \* emit's parameter: id -> (address, span)
    k,              \* statements the loop of emit has consumed
    binary,         \* emit's local
    errors,         \* emit's local
    unused_labels,  \* emit's local
    result,         \* what emit returned
    pointers,       \* history: the pointer before each statement consumed
    macro           \* the macro processor: table, frames, expanded, errors

vars == <<pc, walker, ntokens, statements, definitions, k, binary, errors,
          unused_labels, result, pointers, macro>>

emitVars == <<statements, definitions, k, binary, errors, unused_labels,
              result, pointers>>

NoResult == [ok |-> FALSE, errors |-> <<>>, warnings |-> <<>>]

Walker_new ==
    [pointer |-> PageOne, scope |-> <<>>, definitions |-> <<>>,
     statements |-> <<>>, errors |-> <<>>]

\* the names of the macros defined
MacroNames == {"a", "b", "c", "d"}

\* the macro processor before any body is captured
Macro_new ==
    [state |-> "define", table |-> [name \in MacroNames |-> <<>>],
     frames |-> <<>>, expanded |-> <<>>, errors |-> <<>>]

Init ==
    /\ pc = "walk"
    /\ walker = Walker_new
    /\ ntokens = 0
    /\ statements = <<>>
    /\ definitions = <<>>
    /\ k = 0
    /\ binary = Binary_new
    /\ errors = <<>>
    /\ unused_labels = {}
    /\ result = NoResult
    /\ pointers = <<>>
    /\ macro = Macro_new

\* the walker takes the next token of the stream
Walk ==
    /\ pc = "walk"
    /\ ntokens < MaxTokens
    /\ \E token \in Tokens :
          walker' = WalkOne(walker, token, ntokens + 1)
    /\ ntokens' = ntokens + 1
    /\ UNCHANGED <<pc, emitVars, macro>>

\* The stream ends.  The pipeline stops at the stage boundary when the walker
\* recorded an error; otherwise emit is called and sets up its locals
\* (emitter.rs:62-67).
WalkEnd ==
    /\ pc = "walk"
    /\ IF walker.errors # <<>>
       THEN /\ pc' = "rejected"
            /\ UNCHANGED emitVars
       ELSE /\ pc' = "emit"
            /\ statements' = walker.statements
            /\ definitions' = walker.definitions
            /\ k' = 0
            /\ binary' = Binary_new
            /\ errors' = <<>>
            /\ unused_labels' = DOMAIN walker.definitions
            /\ UNCHANGED <<result, pointers>>
    /\ UNCHANGED <<walker, ntokens, macro>>

\* one iteration of for statement in statements (emitter.rs:69-209)
EmitStatement ==
    /\ pc = "emit"
    /\ k < Len(statements)
    /\ \E checks \in BOOLEAN :
         LET e == EmitOne([binary |-> binary, errors |-> errors,
                           unused_labels |-> unused_labels],
                          statements[k + 1], definitions, checks)
         IN  /\ binary' = e.binary
             /\ errors' = e.errors
             /\ unused_labels' = e.unused_labels
             /\ pc' = IF e.binary.panicked THEN "panicked" ELSE "emit"
    /\ k' = k + 1
    /\ pointers' = Append(pointers, binary.pointer)
    /\ UNCHANGED <<walker, ntokens, statements, definitions, result, macro>>

\* after the loop: the warnings and the result (emitter.rs:211-226)
EmitReturn ==
    /\ pc = "emit"
    /\ k = Len(statements)
    /\ \E order \in Orders(Warnable(unused_labels)) :
         result' = Outcome(binary, errors, WarningsIn(order, definitions))
    /\ pc' = IF result'.ok /\ result'.bytes.panicked THEN "panicked" ELSE "done"
    /\ UNCHANGED <<walker, ntokens, statements, definitions, k, binary, errors,
                   unused_labels, pointers, macro>>

Next == Walk \/ WalkEnd \/ EmitStatement \/ EmitReturn

Spec == Init /\ [][Next]_vars

(***************************************************************************)
(* SpecEmit: emit over its parameters.  The statements carry their         *)
(* position as span; a label's defining span is DefSpan of it.             *)
(***************************************************************************)
Foo_ == ScopedIdentifier(Foo, <<>>)

EmitIds == {foo_, Foo_}

\* 0x0000 0x0084 0x0085 0x00ff 0x0100 0x0181 0x0182 0x0200
EmitAddresses == {0, 132, 133, 255, 256, 385, 386, 512}

EmitNodes ==
    {LiteralZeroPageAddress(foo_), LiteralRelativeAddress(foo_),
     LiteralAbsoluteAddress(foo_), RawAddress(foo_), RawAddress(Foo_),
     Instruction(6, TRUE, FALSE, TRUE), PadRelative(1),
     LiteralHexByte(255), LiteralHexShort(4660), RawHexByte(7),
     RawHexShort(43981), RawChar(65), RawWord(<<104, 105, 33>>)}

DefSpan(id) == IF id = foo_ THEN 101 ELSE 102

EmitDefinitions ==
    UNION {{[id \in D |-> [address |-> a[id], span |-> DefSpan(id)]] :
              a \in [D -> EmitAddresses]} : D \in SUBSET EmitIds}

EmitStatements ==
    UNION {{[i \in 1..n |-> Spanned(nodes[i], i)] : nodes \in [1..n -> EmitNodes]} :
              n \in 0..MaxEmitLen}

InitEmit ==
    /\ pc = "emit"
    /\ walker = Walker_new
    /\ ntokens = 0
    /\ statements \in EmitStatements
    /\ definitions \in EmitDefinitions
    /\ k = 0
    /\ binary = Binary_new
    /\ errors = <<>>
    /\ unused_labels = DOMAIN definitions
    /\ result = NoResult
    /\ pointers = <<>>
    /\ macro = Macro_new

NextEmit == EmitStatement \/ EmitReturn

SpecEmit == InitEmit /\ [][NextEmit]_vars

(***************************************************************************)
(* Properties.                                                             *)
(***************************************************************************)
Statements == 1..Len(statements)

References(j, id) ==
    /\ statements[j].node.type \in AddressTypes
    /\ statements[j].node.id = id

\* the labels of Definitions that no statement of the stream references
Unreferenced == {id \in DOMAIN definitions : \A j \in Statements : ~References(j, id)}

Range(seq) == {seq[i] : i \in DOMAIN seq}

\* C1: emit returns Ok((bytes, warnings)) exactly when no error was recorded
\* and Err((errors, warnings)) with the recorded, non-empty errors otherwise;
\* either way the warnings are all the unused-label warnings: one LabelUnused
\* for each unreferenced, non-capital label of Definitions, errors or not.
C1_ResultAndWarnings ==
    pc = "done" =>
        /\ result.ok <=> errors = <<>>
        /\ ~result.ok => result.errors = errors /\ result.errors # <<>>
        /\ Range(result.warnings) =
              {LabelUnused(id, definitions[id].span) :
                  id \in {u \in Unreferenced : ~is_captital(u)}}

\* C1 witness: emit returned errors together with a warning
C1_Witness ==
    /\ pc = "done"
    /\ ~result.ok
    /\ result.errors # <<>>
    /\ result.warnings # <<>>

\* the address of the j-th store and the byte stored
StoreAddress(j) == binary.log[j][1]
StoreByte(j) == binary.log[j][2]
Stores == 1..Len(binary.log)

\* C2: on a clean run the byte vector is the image from 0x0100 up to length,
\* the address just past the last byte written: its length is that address
\* minus 0x0100 (0 when nothing was written, so padding after the last byte
\* and the empty statement list add nothing), byte i is the byte stored at
\* address 0x0100 + i, and a byte no store wrote is 0.
C2_OutputIsImage ==
    pc = "done" /\ result.ok =>
        LET out == result.bytes IN
        /\ out.len = IF binary.log = <<>> THEN 0
                     ELSE StoreAddress(Len(binary.log)) + 1 - 256
        /\ \A j \in Stores :
              (\A l \in Stores : l > j => StoreAddress(l) # StoreAddress(j))
                 => /\ StoreAddress(j) - 256 < out.len
                    /\ VecAt(out, StoreAddress(j) - 256) = StoreByte(j)
        /\ \A i \in DOMAIN out.data :
              /\ 0 <= i /\ i < out.len
              /\ \E j \in Stores : StoreAddress(j) = 256 + i
        /\ statements = <<>> => out.len = 0

\* C2 witness: a clean run that skipped the first address, stored bytes and
\* ended with padding that is not in the output
C2_Witness ==
    /\ pc = "done"
    /\ result.ok
    /\ Len(binary.log) >= 2
    /\ StoreAddress(1) > 256
    /\ VecAt(result.bytes, 0) = 0
    /\ VecAt(result.bytes, StoreAddress(1) - 256) = StoreByte(1)
    /\ statements[Len(statements)].node.type \in {"PadAbsolute", "PadRelative"}
    /\ binary.pointer > binary.length
    /\ result.bytes.len = binary.length - 256

\* C3: the output is at most 65 280 bytes long and none of its bytes belongs
\* to an address below 0x0100: every store of the run is to an address in
\* 0x0100..0xFFFF and lands at output index address - 0x0100 >= 0.
C3_OutputBounds ==
    /\ \A j \in Stores : 256 <= StoreAddress(j) /\ StoreAddress(j) <= 65535
    /\ pc = "done" /\ result.ok =>
          /\ result.bytes.len <= 65280
          /\ \A i \in DOMAIN result.bytes.data : 0 <= i /\ i < 65280

\* C3 witness: the longest output there is, a byte stored at 0xFFFE
C3_Witness ==
    /\ pc = "done"
    /\ result.ok
    /\ result.bytes.len = 65279
    /\ 65278 \in DOMAIN result.bytes.data

\* C4 as claimed: 0x0100 <= pointer and pointer <= length <= 0x10000 in
\* every state of the image during emission.
C4_PointerBelowLength ==
    pc \in {"emit", "done"} =>
        /\ 256 <= binary.pointer
        /\ binary.pointer <= binary.length
        /\ binary.length <= 65536

\* C4, amended: in every state of the image during the emission of a stream
\* the walker accepted, 0x0100 <= pointer and 0x0100 <= length <= pointer <=
\* 0x10000: length stays behind pointer across padding and equals it after
\* a push.
C4_LengthBelowPointer ==
    pc \in {"emit", "done"} =>
        /\ 256 <= binary.pointer
        /\ 256 <= binary.length
        /\ binary.length <= binary.pointer
        /\ binary.pointer <= 65536

\* C4 witness: after a push and then padding, pointer is beyond length
C4_Witness ==
    /\ pc = "emit"
    /\ binary.log # <<>>
    /\ binary.length > 256
    /\ binary.pointer > binary.length

\* C5: from one step of the emitter to the next, over a stream the walker
\* accepted, neither pointer nor length decreases.
C5_Monotone ==
    [][pc = "emit" =>
          /\ binary'.pointer >= binary.pointer
          /\ binary'.length >= binary.length]_vars

\* C5 witness: pointer rose at every one of three steps, by padding and by
\* pushes, and length rose with the pushes
C5_Witness ==
    /\ pc = "done"
    /\ Len(pointers) = 3
    /\ pointers[1] < pointers[2]
    /\ pointers[2] < pointers[3]
    /\ pointers[3] < binary.pointer
    /\ \E j \in Statements : statements[j].node.type = "PadAbsolute"
    /\ binary.length > 256

\* the pointer after the j-th statement was consumed
PointerAfter(j) == IF j < k THEN pointers[j + 1] ELSE binary.pointer

\* the bytes stored at an address
StoredAt(address) == {StoreByte(l) : l \in {m \in Stores : StoreAddress(m) = address}}

\* the errors reported for the j-th statement
ErrorsAt(j) == SelectSeq(errors, LAMBDA err : err.span = statements[j].span)

\* the width a reference declares
DeclaredWidth(type) ==
    CASE type = "LiteralZeroPageAddress" -> 2
      [] type = "LiteralRelativeAddress" -> 2
      [] type = "LiteralAbsoluteAddress" -> 3
      [] type = "RawAddress" -> 2

\* C6: every address reference the emitter has consumed moved the pointer by
\* exactly its declared width (zero-page 2, relative 2, absolute 3, raw 2),
\* whether it resolved or was reported as LabelUndefined, AddressNotZeroPage
\* or AddressTooFar, so the statements after it start at the same address
\* either way.
C6_ReferenceWidth ==
    /\ pc # "panicked"
    /\ \A j \in 1..k :
          statements[j].node.type \in AddressTypes =>
              PointerAfter(j) = pointers[j] + DeclaredWidth(statements[j].node.type)

\* C6 witness: an undefined absolute reference reserved 3 bytes and the
\* resolved raw reference after it stored its 2 bytes at the next address
C6_Witness ==
    /\ k = 2
    /\ statements[1].node = LiteralAbsoluteAddress(foo_)
    /\ statements[2].node.type = "RawAddress"
    /\ Len(errors) = 1
    /\ errors[1] = LabelUndefined(foo_, 1)
    /\ pointers = <<256, 259>>
    /\ binary.pointer = 261
    /\ Len(binary.log) = 2
    /\ StoreAddress(1) = 259

\* the pointer at the place of the stream a label was defined: the pointer
\* before the first statement after the defining span, the final pointer
\* when no statement follows
PointerAtSpan(span) ==
    LET later == {j \in Statements : statements[j].span > span} IN
    IF later = {} THEN binary.pointer
    ELSE pointers[CHOOSE j \in later : \A l \in later : j <= l]

\* C7: in a program assembled without errors, the address Definitions holds
\* for a label is the emitter's pointer at the place of the stream where the
\* label was defined, forward references included; so LiteralAbsoluteAddress
\* stores LIT2 (0x20) and then that address, high byte first, and RawAddress
\* stores those two bytes alone.
C7_WalkerEmitterAgree ==
    pc = "done" /\ result.ok =>
        /\ \A id \in DOMAIN definitions :
              definitions[id].address = PointerAtSpan(definitions[id].span)
        /\ \A j \in Statements :
              LET node == statements[j].node
                  at == pointers[j] - 256
              IN  /\ node.type = "LiteralAbsoluteAddress" =>
                        LET a == PointerAtSpan(definitions[node.id].span) IN
                        /\ VecAt(result.bytes, at) = 32
                        /\ VecAt(result.bytes, at + 1) = a \div 256
                        /\ VecAt(result.bytes, at + 2) = a % 256
                        /\ PointerAfter(j) = pointers[j] + 3
                  /\ node.type = "RawAddress" =>
                        LET a == PointerAtSpan(definitions[node.id].span) IN
                        /\ VecAt(result.bytes, at) = a \div 256
                        /\ VecAt(result.bytes, at + 1) = a % 256
                        /\ PointerAfter(j) = pointers[j] + 2

\* C7 witness: ;foo BRK @foo assembles to 20 01 04 00, foo being 0x0104
C7_Witness ==
    /\ pc = "done"
    /\ result.ok
    /\ Len(statements) = 2
    /\ statements[1].node = LiteralAbsoluteAddress(foo_)
    /\ statements[2].node = Instruction(0, FALSE, FALSE, FALSE)
    /\ foo_ \in DOMAIN definitions
    /\ definitions[foo_] = [address |-> 260, span |-> 3]
    /\ result.bytes.len = 4
    /\ VecAt(result.bytes, 0) = 32
    /\ VecAt(result.bytes, 1) = 1
    /\ VecAt(result.bytes, 2) = 4
    /\ VecAt(result.bytes, 3) = 0

\* an offset in -128..127 as a two's-complement byte
TwosComplement(d) == IF d >= 0 THEN d ELSE 256 + d

Distance(d) == IF d >= 0 THEN d ELSE 0 - d

\* C8: a LiteralRelativeAddress at pointer p whose target resolves stores LIT
\* (0x80) and the byte of target - p - 3 in two's complement when that value
\* is in -126..126; otherwise it reports AddressTooFar with the absolute
\* value of it, the identifier, the reference's span and the label's
\* defining span, stores nothing, reserves two bytes, and emission goes on.
C8_RelativeAddress ==
    /\ pc # "panicked"
    /\ \A j \in 1..k :
          LET node == statements[j].node IN
          node.type = "LiteralRelativeAddress" /\ node.id \in DOMAIN definitions =>
              LET p == pointers[j]
                  d == definitions[node.id].address - p - 3
              IN  IF -126 <= d /\ d <= 126
                  THEN /\ StoredAt(p) = {128}
                       /\ StoredAt(p + 1) = {TwosComplement(d)}
                       /\ ErrorsAt(j) = <<>>
                  ELSE /\ ErrorsAt(j) =
                             <<AddressTooFar(Distance(d), node.id, statements[j].span,
                                             definitions[node.id].span)>>
                       /\ StoredAt(p) = {}
                       /\ StoredAt(p + 1) = {}
                       /\ PointerAfter(j) = p + 2

\* C8 witness: ,foo at 0x0100 with foo at 0x0084 (offset -127) is
\* AddressTooFar with distance 127; nothing is stored at 0x0100, two bytes
\* are reserved and the instruction after it is stored at 0x0102
C8_Witness ==
    /\ k = 2
    /\ statements[1].node = LiteralRelativeAddress(foo_)
    /\ statements[2].node.type = "Instruction"
    /\ foo_ \in DOMAIN definitions
    /\ definitions[foo_].address = 132
    /\ errors = <<AddressTooFar(127, foo_, 1, 101)>>
    /\ pointers = <<256, 258>>
    /\ StoredAt(256) = {}
    /\ StoredAt(258) # {}

\* C9: a LiteralZeroPageAddress whose target resolves to a stores LIT (0x80)
\* and the byte a when a <= 0xFF; otherwise it reports exactly one
\* AddressNotZeroPage with a and the identifier, stores no byte and reserves
\* two bytes.
C9_ZeroPageAddress ==
    /\ pc # "panicked"
    /\ \A j \in 1..k :
          LET node == statements[j].node IN
          node.type = "LiteralZeroPageAddress" /\ node.id \in DOMAIN definitions =>
              LET p == pointers[j]
                  a == definitions[node.id].address
              IN  IF a <= 255
                  THEN /\ StoredAt(p) = {128}
                       /\ StoredAt(p + 1) = {a}
                       /\ ErrorsAt(j) = <<>>
                  ELSE /\ ErrorsAt(j) =
                             <<AddressNotZeroPage(a, node.id, statements[j].span)>>
                       /\ StoredAt(p) = {}
                       /\ StoredAt(p + 1) = {}
                       /\ PointerAfter(j) = p + 2

\* C9 witness: .foo with foo at 0x0200 is the one error AddressNotZeroPage
\* { address: 0x0200, identifier: foo }, and nothing was stored
C9_Witness ==
    /\ pc = "done"
    /\ Len(statements) = 1
    /\ statements[1].node = LiteralZeroPageAddress(foo_)
    /\ foo_ \in DOMAIN definitions
    /\ definitions[foo_].address = 512
    /\ ~result.ok
    /\ result.errors = <<AddressNotZeroPage(512, foo_, 1)>>
    /\ binary.log = <<>>
    /\ binary.pointer = 258

\* the warnings that name a label
WarningsOf(id) == {i \in DOMAIN result.warnings : result.warnings[i].name = id}

\* C10: when emit returns, a label or sublabel of Definitions has a
\* LabelUnused warning exactly when no statement references it and it is not
\* capital; it then has one warning, with its defining span, and a label
\* some statement references has none.
C10_UnusedLabels ==
    pc = "done" =>
        /\ \A id \in DOMAIN definitions :
              Cardinality(WarningsOf(id)) =
                  IF (\A j \in Statements : ~References(j, id)) /\ ~is_captital(id)
                  THEN 1 ELSE 0
        /\ \A i \in DOMAIN result.warnings :
              LET w == result.warnings[i] IN
              /\ w.name \in DOMAIN definitions
              /\ w = LabelUnused(w.name, definitions[w.name].span)

\* C10 witness: @foo &a ;foo warns of foo/a, once and with its span, and not
\* of the referenced foo
C10_Witness ==
    /\ pc = "done"
    /\ DOMAIN definitions = {foo_, foo_a}
    /\ \E j \in Statements : References(j, foo_)
    /\ result.warnings = <<LabelUnused(foo_a, 2)>>

\* the stores the j-th statement made, in the order made: pointer never
\* decreases over an accepted stream, so they are the stores to the
\* addresses from the pointer before it up to the pointer after it
StoresOf(j) ==
    SelectSeq(binary.log,
              LAMBDA store : pointers[j] <= store[1] /\ store[1] < PointerAfter(j))

\* C11: when PadAbsolute(a), with a at or after the pointer, is followed by a
\* statement that stores bytes, the first byte stored is at address a, which
\* is output index a - 0x0100; when PadRelative(n) is, the first byte is n
\* addresses past the pointer before the padding, where it would have gone
\* without it.
C11_PaddingPlacesNext ==
    \A j \in 1..(k - 1) :
        LET node == statements[j].node
            first == StoresOf(j + 1)[1]
        IN  node.type \in {"PadAbsolute", "PadRelative"} /\ StoresOf(j + 1) # <<>> =>
                /\ node.type = "PadAbsolute" => first[1] = node.value
                /\ node.type = "PadRelative" => first[1] = pointers[j] + node.value
                /\ pc = "done" /\ result.ok =>
                      VecAt(result.bytes, first[1] - 256) = first[2]

\* C11 witness: |017b #ff puts LIT at 0x017b, which is output index 0x7b
C11_Witness ==
    /\ pc = "done"
    /\ result.ok
    /\ Len(statements) = 2
    /\ statements[1].node = PadAbsolute(379)
    /\ statements[2].node = LiteralHexByte(255)
    /\ StoresOf(2) = <<<<379, 128>>, <<380, 255>>>>
    /\ VecAt(result.bytes, 123) = 128
    /\ result.bytes.len = 125

\* a short's two bytes at p and p + 1, high byte first
ShortAt(p, short) == <<<<p, short \div 256>>, <<p + 1, short % 256>>>>

\* C12: a literal statement stores its prefix and, at the next addresses,
\* its payload and nothing else: LIT (0x80) and 1 byte for LiteralHexByte and
\* for a resolved LiteralZeroPageAddress or LiteralRelativeAddress, LIT2
\* (0x20) and 2 bytes, high byte first, for LiteralHexShort and a resolved
\* LiteralAbsoluteAddress; RawHexByte, RawHexShort, RawChar, RawWord and a
\* resolved RawAddress store their bytes with no prefix.
C12_PrefixAndPayload ==
    \A j \in 1..k :
        LET node == statements[j].node
            p == pointers[j]
            stored == StoresOf(j)
        IN  /\ node.type = "LiteralHexByte" =>
                  stored = <<<<p, 128>>, <<p + 1, node.value>>>>
            /\ node.type = "LiteralHexShort" =>
                  stored = <<<<p, 32>>>> \o ShortAt(p + 1, node.value)
            /\ node.type \in {"LiteralZeroPageAddress", "LiteralRelativeAddress"} =>
                  \/ stored = <<>> /\ ErrorsAt(j) # <<>>
                  \/ /\ Len(stored) = 2
                     /\ stored[1] = <<p, 128>>
                     /\ stored[2][1] = p + 1
                     /\ ErrorsAt(j) = <<>>
            /\ node.type = "LiteralAbsoluteAddress" =>
                  IF node.id \in DOMAIN definitions
                  THEN stored = <<<<p, 32>>>> \o ShortAt(p + 1, definitions[node.id].address)
                  ELSE stored = <<>>
            /\ node.type \in {"RawHexByte", "RawChar"} =>
                  stored = <<<<p, node.value>>>>
            /\ node.type = "RawHexShort" => stored = ShortAt(p, node.value)
            /\ node.type = "RawWord" =>
                  stored = [i \in 1..Len(node.word) |-> <<p + i - 1, node.word[i]>>]
            /\ node.type = "RawAddress" =>
                  IF node.id \in DOMAIN definitions
                  THEN stored = ShortAt(p, definitions[node.id].address)
                  ELSE stored = <<>>

\* C12 witness: #1234 .foo with foo at 0x00ff stores 20 12 34 80 ff
C12_Witness ==
    /\ k = 2
    /\ statements[1].node = LiteralHexShort(4660)
    /\ statements[2].node = LiteralZeroPageAddress(foo_)
    /\ binary.log = <<<<256, 32>>, <<257, 18>>, <<258, 52>>, <<259, 128>>, <<260, 255>>>>

(***************************************************************************)
(* emit over one instruction statement, for every instruction_kind and     *)
(* every combination of the mode flags.                                    *)
(***************************************************************************)
\* the 5-bit opcode indices
InstructionKinds == 0..31

InstructionStatements ==
    {<<Spanned(Instruction(kind, short, return, keep), 1)>> :
        kind \in InstructionKinds, short \in BOOLEAN,
        return \in BOOLEAN, keep \in BOOLEAN}

InitInstruction ==
    /\ pc = "emit"
    /\ walker = Walker_new
    /\ ntokens = 0
    /\ statements \in InstructionStatements
    /\ definitions = <<>>
    /\ k = 0
    /\ binary = Binary_new
    /\ errors = <<>>
    /\ unused_labels = {}
    /\ result = NoResult
    /\ pointers = <<>>
    /\ macro = Macro_new

SpecInstruction == InitInstruction /\ [][NextEmit]_vars

\* C13: an instruction statement stores exactly one byte, equal to
\* kind + 0x20 (short) + 0x40 (return) + 0x80 (keep); the byte's low five
\* bits give back the kind and its bits 5, 6 and 7 the three flags, so no two
\* instructions share a byte.
C13_InstructionByte ==
    \A j \in 1..k :
        LET node == statements[j].node
            stored == StoresOf(j)
            byte == stored[1][2]
        IN  node.type = "Instruction" =>
                /\ Len(stored) = 1
                /\ stored[1][1] = pointers[j]
                /\ byte = node.kind + (IF node.short THEN 32 ELSE 0)
                                    + (IF node.return THEN 64 ELSE 0)
                                    + (IF node.keep THEN 128 ELSE 0)
                /\ byte % 32 = node.kind
                /\ ((byte \div 32) % 2 = 1) = node.short
                /\ ((byte \div 64) % 2 = 1) = node.return
                /\ ((byte \div 128) % 2 = 1) = node.keep
                /\ pc = "done" /\ result.ok =>
                      VecAt(result.bytes, pointers[j] - 256) = byte

\* C13 witness: kind 0x1f with return set and the other flags clear gives
\* the one byte 5f
C13_Witness ==
    /\ pc = "done"
    /\ result.ok
    /\ statements[1].node = Instruction(31, FALSE, TRUE, FALSE)
    /\ binary.log = <<<<256, 95>>>>
    /\ result.bytes.len = 1
    /\ VecAt(result.bytes, 0) = 95

\* a diagnostic's (kind, span) pair
KindSpan(diagnostic) == <<diagnostic.kind, diagnostic.span>>

\* how many diagnostics of a vector have the pair
Count(diagnostics, pair) ==
    Cardinality({i \in DOMAIN diagnostics : KindSpan(diagnostics[i]) = pair})

\* the same multiset of (kind, span) pairs
SameDiagnostics(d1, d2) ==
    /\ Len(d1) = Len(d2)
    /\ \A i \in DOMAIN d1 : Count(d1, KindSpan(d1[i])) = Count(d2, KindSpan(d1[i]))

\* two results of emit with the same bytes and the same diagnostics
SameResult(r1, r2) ==
    /\ r1.ok = r2.ok
    /\ r1.ok => r1.bytes = r2.bytes
    /\ ~r1.ok => SameDiagnostics(r1.errors, r2.errors)
    /\ SameDiagnostics(r1.warnings, r2.warnings)

\* C14: on the same statements and Definitions every run of emit gives the
\* same result: a statement changes the image, the errors and the unused
\* labels in one way whatever the build, and whatever order the HashSet
\* iterates the unused labels in, the returned bytes are the same and the
\* errors and the warnings are the same multisets of (kind, span) pairs.
C14_Deterministic ==
    /\ pc = "emit" /\ k < Len(statements) =>
          LET e == [binary |-> binary, errors |-> errors,
                    unused_labels |-> unused_labels]
          IN  EmitOne(e, statements[k + 1], definitions, TRUE)
                  = EmitOne(e, statements[k + 1], definitions, FALSE)
    /\ pc = "done" =>
          \A order \in Orders(Warnable(unused_labels)) :
              SameResult(result, Outcome(binary, errors, WarningsIn(order, definitions)))

\* C14 witness: @foo &a returned with the warning of foo/a before that of
\* foo, the other order being as possible
C14_Witness ==
    /\ pc = "done"
    /\ result.ok
    /\ Warnable(unused_labels) = {foo_, foo_a}
    /\ result.warnings = <<LabelUnused(foo_a, 2), LabelUnused(foo_, 1)>>

\* the error the j-th statement is to be reported with, or none
Failure(j) ==
    LET node == statements[j].node
        span == statements[j].span
    IN  IF node.type \notin AddressTypes THEN <<>>
        ELSE IF node.id \notin DOMAIN definitions
        THEN <<LabelUndefined(node.id, span)>>
        ELSE LET address == definitions[node.id].address
                 distance == address - pointers[j] - 3
             IN  IF node.type = "LiteralZeroPageAddress" /\ address > 255
                 THEN <<AddressNotZeroPage(address, node.id, span)>>
                 ELSE IF node.type = "LiteralRelativeAddress"
                         /\ (distance < -126 \/ distance > 126)
                 THEN <<AddressTooFar(Abs(distance), node.id, span,
                                      definitions[node.id].span)>>
                 ELSE <<>>

\* the statements consumed so far that fail
Failing == {j \in 1..k : Failure(j) # <<>>}

\* C16: emit goes through every statement whatever errors it meets; the
\* errors vector holds, in statement order, one error for each reference that
\* failed so far (LabelUndefined when the identifier is not in Definitions,
\* else AddressNotZeroPage or AddressTooFar) and nothing for any other
\* statement, and a return with errors returns that vector.
C16_ErrorsAccumulate ==
    /\ pc # "panicked"
    /\ Len(errors) = Cardinality(Failing)
    /\ \A j \in Failing :
          errors[Cardinality({i \in Failing : i <= j})] = Failure(j)[1]
    /\ pc = "done" =>
          /\ k = Len(statements)
          /\ result.ok = (Failing = {})
          /\ ~result.ok => result.errors = errors

\* C16 witness: .foo :Foo with foo at 0x0100 and Foo undefined returns
\* AddressNotZeroPage and then LabelUndefined
C16_Witness ==
    /\ pc = "done"
    /\ ~result.ok
    /\ statements[1].node = LiteralZeroPageAddress(foo_)
    /\ Len(statements) = 2
    /\ statements[2].node = RawAddress(Foo_)
    /\ result.errors = <<AddressNotZeroPage(256, foo_, 1), LabelUndefined(Foo_, 2)>>

\* C17: on a stream the walker accepted emit never fails at run time: every
\* push_byte finds the pointer in 0x0100..0xFFFF, so that its index is inside
\* the 65280 bytes of data, no statement takes the pointer past 0xFFFF
\* (PadRelative(n) moves it by n exactly and the others by their size,
\* without wrapping), and length is at least 0x0100 when the image is cut.
C17_NoRuntimeFailure ==
    pc \in {"emit", "done", "panicked"} =>
        /\ pc # "panicked"
        /\ ~binary.panicked
        /\ \A l \in Stores :
              /\ 256 <= StoreAddress(l) /\ StoreAddress(l) <= 65535
              /\ 0 <= StoreAddress(l) - 256 /\ StoreAddress(l) - 256 < 65280
        /\ \A j \in 1..k :
              LET node == statements[j].node IN
              /\ PointerAfter(j) <= 65535
              /\ node.type = "PadRelative" => PointerAfter(j) = pointers[j] + node.value
              /\ node.type = "PadAbsolute" => PointerAfter(j) = node.value
              /\ node.type \notin {"PadRelative", "PadAbsolute"} =>
                    PointerAfter(j) = pointers[j] + Size(node)
        /\ binary.length >= 256
        /\ pc = "done" /\ result.ok =>
              /\ ~result.bytes.panicked
              /\ result.bytes.len = binary.length - 256

\* C17 witness: |fffe 07 stores at 0xfffe, the last address a stream the
\* walker accepts can store at, and returns 65279 bytes
C17_Witness ==
    /\ pc = "done"
    /\ result.ok
    /\ walker.errors = <<>>
    /\ Len(statements) = 2
    /\ statements[1].node = PadAbsolute(65534)
    /\ binary.log = <<<<65534, 7>>>>
    /\ binary.pointer = 65535
    /\ result.bytes.len = 65279

\* the addresses skipped before the l-th store: from the address after the
\* store before it, or from 0x0100, up to its own
SkippedFrom(l) == IF l = 1 THEN 256 ELSE StoreAddress(l - 1) + 1

\* the first addresses, the middle one and the last one of those skipped
\* before the l-th store
SkippedSample(l) ==
    LET from == SkippedFrom(l)
        to == StoreAddress(l) - 1
    IN  {a \in (from..(from + 3)) \cup {(from + to) \div 2, to} : from <= a /\ a <= to}

\* C18: in a returned image the stores are to rising addresses, one store to
\* an address; the byte at an address stored to is the byte of that store,
\* and the bytes at the addresses padding skipped before a store, which are
\* inside the output, are 0x00.
C18_GapsAreZero ==
    pc = "done" /\ result.ok =>
        /\ \A l, m \in Stores : l < m => StoreAddress(l) < StoreAddress(m)
        /\ \A l \in Stores :
              /\ StoreAddress(l) - 256 < result.bytes.len
              /\ VecAt(result.bytes, StoreAddress(l) - 256) = StoreByte(l)
              /\ \A a \in SkippedSample(l) :
                    /\ a - 256 < result.bytes.len
                    /\ StoredAt(a) = {}
                    /\ VecAt(result.bytes, a - 256) = 0

\* C18 witness: 07 $1 abcd returns 07 00 ab cd, the byte PadRelative skipped
\* between the two emissions being 00
C18_Witness ==
    /\ pc = "done"
    /\ result.ok
    /\ Len(statements) = 3
    /\ binary.log = <<<<256, 7>>, <<258, 171>>, <<259, 205>>>>
    /\ statements[2].node = PadRelative(1)
    /\ SkippedSample(2) = {257}
    /\ result.bytes.len = 4
    /\ VecAt(result.bytes, 0) = 7
    /\ VecAt(result.bytes, 1) = 0
    /\ VecAt(result.bytes, 2) = 171
    /\ VecAt(result.bytes, 3) = 205

(***************************************************************************)
(* The macro processor, from the specification, section 4.2: bodies are    *)
(* captured into a table, then every MacroInvoke is replaced by the body   *)
(* of its macro, bodies within bodies, with a stack of the macros being    *)
(* expanded.  A body token is a MacroInvoke with its span; a span is the   *)
(* macro whose body the token is in and its position there.                *)
(***************************************************************************)
MaxInvocations == 4

MacroInvoke(name, span) == [name |-> name, span |-> span]

\* the stream outside the bodies: one invocation of a
TopLevel == <<MacroInvoke("a", <<"top", 1>>)>>

\* RecursiveMacro { chain, span } (display.rs:398-440): chain[1] is the macro
\* re-entered with the span of the invocation that re-enters it, each later
\* element a macro with the span where the one before invokes it, and span
\* the initial invocation of chain[1]
RecursiveMacro(chain, span) ==
    [kind |-> "RecursiveMacro", chain |-> chain, span |-> span]

\* the tokens a frame goes through
BodyOf(m, name) == IF name = "top" THEN TopLevel ELSE m.table[name]

\* the stack of the macros being expanded, innermost last
StackNames(m) == [i \in 1..(Len(m.frames) - 1) |-> m.frames[i + 1].name]

\* a variant of OnStack that asks whether the macro was expanded before
OnStack_visited(m, name) == \E i \in DOMAIN m.expanded : m.expanded[i] = name

\* is the macro one of those being expanded
OnStack(m, name) == \E i \in DOMAIN StackNames(m) : StackNames(m)[i] = name

\* the frame of a macro that is on the stack (the innermost frame for one
\* that is not)
FrameOf(m, name) ==
    IF \E i \in DOMAIN m.frames : m.frames[i].name = name
    THEN CHOOSE i \in DOMAIN m.frames : m.frames[i].name = name
    ELSE Len(m.frames)

\* the chain from the re-entered macro to the invocation that re-enters it
ChainOf(m, token) ==
    LET p == FrameOf(m, token.name) IN
    [i \in 1..(Len(m.frames) - p + 1) |->
        IF i = 1 THEN <<token.name, token.span>>
        ELSE <<m.frames[p + i - 1].name, m.frames[p + i - 1].span>>]

\* a body token is captured into the body of a macro
CaptureToken(m, owner, invoked) ==
    [m EXCEPT !.table[owner] =
        Append(@, MacroInvoke(invoked, <<owner, Len(@) + 1>>))]

\* the second pass begins with the stream outside the bodies
BeginExpansion(m) ==
    [m EXCEPT !.state = "expand",
              !.frames = <<[name |-> "top", span |-> <<"top", 0>>, i |-> 1]>>]

\* the next token of the innermost frame is an invocation: re-entering a
\* macro on the stack is RecursiveMacro and the invocation is left out,
\* otherwise its body is gone through in its place
ExpandInvoke(m) ==
    LET top == Len(m.frames)
        frame == m.frames[top]
        token == BodyOf(m, frame.name)[frame.i]
        moved == [m EXCEPT !.frames[top].i = @ + 1]
    IN  IF OnStack(m, token.name)
        THEN [moved EXCEPT !.errors =
                 Append(@, RecursiveMacro(ChainOf(m, token),
                                          m.frames[FrameOf(m, token.name)].span))]
        ELSE [moved EXCEPT
                 !.frames = Append(@, [name |-> token.name, span |-> token.span,
                                       i |-> 1]),
                 !.expanded = Append(@, token.name)]

\* the innermost frame is at its end: back to the frame that invoked it
LeaveFrame(m) ==
    LET rest == SubSeq(m.frames, 1, Len(m.frames) - 1) IN
    [m EXCEPT !.frames = rest,
              !.state = IF rest = <<>> THEN "done" ELSE "expand"]

Invocations(m) ==
    LET RECURSIVE Sum(_)
        Sum(S) == IF S = {} THEN 0
                  ELSE LET name == CHOOSE n \in S : TRUE
                       IN  Len(m.table[name]) + Sum(S \ {name})
    IN  Sum(MacroNames)

InitMacro ==
    /\ pc = "macro"
    /\ walker = Walker_new
    /\ ntokens = 0
    /\ statements = <<>>
    /\ definitions = <<>>
    /\ k = 0
    /\ binary = Binary_new
    /\ errors = <<>>
    /\ unused_labels = {}
    /\ result = NoResult
    /\ pointers = <<>>
    /\ macro = Macro_new

otherVars == <<pc, walker, ntokens, emitVars>>

MacroDefine ==
    /\ pc = "macro"
    /\ macro.state = "define"
    /\ Invocations(macro) < MaxInvocations
    /\ \E owner \in MacroNames, invoked \in MacroNames :
          macro' = CaptureToken(macro, owner, invoked)
    /\ UNCHANGED otherVars

MacroBegin ==
    /\ pc = "macro"
    /\ macro.state = "define"
    /\ macro' = BeginExpansion(macro)
    /\ UNCHANGED otherVars

MacroExpand ==
    /\ pc = "macro"
    /\ macro.state = "expand"
    /\ LET frame == macro.frames[Len(macro.frames)] IN
       frame.i <= Len(BodyOf(macro, frame.name))
    /\ macro' = ExpandInvoke(macro)
    /\ UNCHANGED otherVars

MacroLeave ==
    /\ pc = "macro"
    /\ macro.state = "expand"
    /\ LET frame == macro.frames[Len(macro.frames)] IN
       frame.i > Len(BodyOf(macro, frame.name))
    /\ macro' = LeaveFrame(macro)
    /\ UNCHANGED otherVars

NextMacro == MacroDefine \/ MacroBegin \/ MacroExpand \/ MacroLeave

\* the processor goes on while it has a step to take
SpecMacro == InitMacro /\ [][NextMacro]_vars /\ WF_vars(NextMacro)

\* the macros a macro's body invokes
Invokes(name) == {macro.table[name][i].name : i \in DOMAIN macro.table[name]}

RECURSIVE InvokedFrom(_)
\* the macros invoked from those of S, through any number of bodies
InvokedFrom(S) ==
    LET more == S \cup UNION {Invokes(name) : name \in S}
    IN  IF more = S THEN S ELSE InvokedFrom(more)

\* a macro that is invoked from its own body, through any number of bodies,
\* among those the stream outside the bodies gets to
Cyclic ==
    {name \in InvokedFrom({"a"}) : name \in InvokedFrom(Invokes(name))}

\* a is b c, b is d, c is d
Diamond ==
    [name \in MacroNames |->
        CASE name = "a" -> <<MacroInvoke("b", <<"a", 1>>), MacroInvoke("c", <<"a", 2>>)>>
          [] name = "b" -> <<MacroInvoke("d", <<"b", 1>>)>>
          [] name = "c" -> <<MacroInvoke("d", <<"c", 1>>)>>
          [] name = "d" -> <<>>]

\* the chain is a cycle of invocations: each macro of it invokes the next at
\* the next one's span and the last invokes the first at the first one's
ChainIsCycle(chain) ==
    \A i \in DOMAIN chain :
        LET from == chain[i][1]
            to == chain[(i % Len(chain)) + 1]
        IN  /\ to[2][1] = from
            /\ to[2][2] \in DOMAIN macro.table[from]
            /\ macro.table[from][to[2][2]] = MacroInvoke(to[1], to[2])

C15_Safe ==
    pc = "macro" /\ macro.state \in {"expand", "done"} =>
        /\ \A i, j \in DOMAIN StackNames(macro) :
              i # j => StackNames(macro)[i] # StackNames(macro)[j]
        /\ \A i \in DOMAIN macro.errors :
              LET err == macro.errors[i] IN
              /\ err.kind = "RecursiveMacro"
              /\ err.chain # <<>>
              /\ ChainIsCycle(err.chain)
              /\ err.chain[1][1] \in Cyclic
              /\ (Len(err.chain) = 1) = (err.chain[1][2][1] = err.chain[1][1])
        /\ macro.errors # <<>> => Cyclic # {}
        /\ macro.state = "done" =>
              /\ (macro.errors # <<>>) = (Cyclic # {})
              /\ macro.frames = <<>>
              /\ macro.table = Diamond =>
                    /\ macro.errors = <<>>
                    /\ macro.expanded = <<"a", "b", "d", "c", "d">>

\* C15: RecursiveMacro is reported when, and only when, an invocation
\* re-enters a macro on the stack of those being expanded, which is when
\* some macro reached from the stream invokes itself through any number of
\* bodies; its chain is that cycle of invocations, of length 1 for a macro
\* invoking itself.  No macro is on the stack twice, so expansion comes to an
\* end.  In the diamond (a is b c, b is d, c is d) d is expanded twice and
\* nothing is reported.
C15_RecursiveMacro == [](C15_Safe) /\ <>(macro.state = "done")

\* C15 witness: %a { a } a ends with the one error RecursiveMacro, its chain
\* being a with the span of the invocation in a's body, and its span the
\* invocation outside the bodies
C15_Witness ==
    /\ pc = "macro"
    /\ macro.state = "done"
    /\ macro.table["a"] = <<MacroInvoke("a", <<"a", 1>>)>>
    /\ macro.expanded = <<"a">>
    /\ macro.errors = <<RecursiveMacro(<<<<"a", <<"a", 1>>>>>>, <<"top", 1>>)>>

\* the diamond, expanded with d twice and no error
C15_DiamondExpanded ==
    /\ pc = "macro"
    /\ macro.state = "done"
    /\ macro.table = Diamond
    /\ macro.errors = <<>>
    /\ macro.expanded = <<"a", "b", "d", "c", "d">>

====
